---- MODULE Spec2Model ----
(***************************************************************************)
(* A model of app.py: the Streamlit script that keeps two uploaded files   *)
(* in session_state and, when "Build file(s)" is pressed, extracts the     *)
(* sheets named in a CSV from an Excel workbook (a filtered workbook, a    *)
(* summary table, or both).                                                *)
(*                                                                         *)
(* Text is modelled as a sequence of one-character strings, so that        *)
(* strip, lower, split, join, substring search and Path.suffix are         *)
(* computed character by character as Python computes them.                *)
(***************************************************************************)
EXTENDS Integers, Sequences, FiniteSets, TLC

VARIABLES
    uploader_excel,  \* value of the file_uploader widget "uploader_excel"
    uploader_csv,    \* value of the file_uploader widget "uploader_csv"
    session_state,   \* st.session_state: excel_bytes, excel_name, csv_bytes, csv_name
    mode_radio,      \* value of the radio widget "mode_radio"
    event,           \* the user interaction that triggered the last script run
    ui,              \* what the last script run rendered
    build            \* the locals of build_outputs at the end of the last run

vars == <<uploader_excel, uploader_csv, session_state, mode_radio, event, ui, build>>

----------------------------------------------------------------------------
(* Bounds of the model                                                     *)

MaxSheets == 2   \* sheets in a workbook of the matching family
MaxWanted == 2   \* data rows in a CSV of the matching family
MaxRows   == 2   \* rows of columns A/B in a sheet of the label-scan family

----------------------------------------------------------------------------
(* Python values                                                           *)

\* Python's None, and a present value, for Optional slots
None    == <<>>
Some(x) == <<x>>

\* the value of an openpyxl cell: empty, a number, or text
NoneV  == [t |-> "none", n |-> 0, s |-> <<>>]
Num(k) == [t |-> "num",  n |-> k, s |-> <<>>]
Str(c) == [t |-> "str",  n |-> 0, s |-> c]

UpperCase == <<"A","B","C","D","E","F","G","H","I","J","K","L","M",
               "N","O","P","Q","R","S","T","U","V","W","X","Y","Z">>
LowerCase == <<"a","b","c","d","e","f","g","h","i","j","k","l","m",
               "n","o","p","q","r","s","t","u","v","w","x","y","z">>

\* str.lower(), one character
LowerChar(c) ==
    IF \E i \in DOMAIN UpperCase : UpperCase[i] = c
    THEN LowerCase[CHOOSE i \in DOMAIN UpperCase : UpperCase[i] = c]
    ELSE c

\* str.lower()
lower(s) == [i \in DOMAIN s |-> LowerChar(s[i])]

\* the characters str.strip() and str.split() treat as whitespace
IsSpace(c) == c \in {" ", "\t", "\n"}

RECURSIVE lstrip(_)
lstrip(s) == IF s # <<>> /\ IsSpace(Head(s)) THEN lstrip(Tail(s)) ELSE s

RECURSIVE rstrip(_)
rstrip(s) ==
    IF s # <<>> /\ IsSpace(s[Len(s)]) THEN rstrip(SubSeq(s, 1, Len(s) - 1)) ELSE s

\* str.strip()
strip(s) == rstrip(lstrip(s))

\* the index of the first whitespace character of t; Len(t) + 1 if none
FirstSpace(t) ==
    IF \A i \in DOMAIN t : ~IsSpace(t[i]) THEN Len(t) + 1
    ELSE CHOOSE i \in DOMAIN t : IsSpace(t[i]) /\ \A j \in 1..(i - 1) : ~IsSpace(t[j])

\* the words of t, which starts with a word that ends before index k
RECURSIVE SplitStripped(_, _)
SplitStripped(t, k) ==
    IF t = <<>> THEN <<>>
    ELSE <<SubSeq(t, 1, k - 1)>>
         \o SplitStripped(lstrip(SubSeq(t, k, Len(t))),
                          FirstSpace(lstrip(SubSeq(t, k, Len(t)))))

SplitFrom(t) == SplitStripped(t, FirstSpace(t))

\* str.split(): the maximal runs of non-whitespace characters
split(s) == SplitFrom(lstrip(s))

\* " ".join(words)
RECURSIVE join(_)
join(words) ==
    IF words = <<>> THEN <<>>
    ELSE IF Len(words) = 1 THEN words[1]
    ELSE words[1] \o <<" ">> \o join(Tail(words))

\* needle in hay, for two str
Contains(hay, needle) ==
    \E i \in 0..(Len(hay) - Len(needle)) : SubSeq(hay, i + 1, i + Len(needle)) = needle

DigitChars == <<"0","1","2","3","4","5","6","7","8","9">>

\* str(n) for a non-negative int
RECURSIVE Digits(_)
Digits(n) ==
    IF n < 10 THEN <<DigitChars[n + 1]>>
    ELSE Digits(n \div 10) \o <<DigitChars[(n % 10) + 1]>>

\* str(v) for a cell value
PyStr(v) ==
    IF v.t = "str" THEN v.s
    ELSE IF v.t = "num" THEN Digits(v.n)
    ELSE <<"N","o","n","e">>

\* the value of a string of decimal digits
RECURSIVE DigitsValue(_)
DigitsValue(s) ==
    IF s = <<>> THEN 0
    ELSE 10 * DigitsValue(SubSeq(s, 1, Len(s) - 1))
         + (CHOOSE d \in 0..9 : DigitChars[d + 1] = s[Len(s)])

IsDigits(s) == s # <<>> /\ \A i \in DOMAIN s : \E d \in 1..10 : DigitChars[d] = s[i]

\* pd.to_numeric(column, errors="coerce"), one value: a number stays, text of
\* decimal digits is parsed, any other text and None become NaN (None here).
\* Text in other numeric notations (sign, fraction, exponent, padding) is
\* outside the inputs of this model.
to_numeric(v) ==
    IF v.t = "num" THEN Some(v.n)
    ELSE IF v.t = "str" /\ IsDigits(v.s) THEN Some(DigitsValue(v.s))
    ELSE None

\* s.rfind(c), counted from 1; 0 when c is not in s
rfind(s, c) ==
    IF \A i \in DOMAIN s : s[i] # c THEN 0
    ELSE CHOOSE i \in DOMAIN s : s[i] = c /\ \A j \in DOMAIN s : s[j] = c => j <= i

\* the final component of a path
PathName(p) == SubSeq(p, rfind(p, "/") + 1, Len(p))

\* name[i:] when the dot at i is neither the first nor the last character
SuffixFrom(name, i) ==
    IF 1 < i /\ i < Len(name) THEN SubSeq(name, i, Len(name)) ELSE <<>>

SuffixOfName(name) == SuffixFrom(name, rfind(name, "."))

\* Path(p).suffix: of the final path component, the text from its last dot
\* on, when that dot is neither its first nor its last character
suffix(p) == SuffixOfName(PathName(p))

----------------------------------------------------------------------------
(* The uploaded files                                                      *)

\* A CSV file as pd.read_csv(dtype=str) sees it: the column names and, when
\* there is a SheetName column, its cells top to bottom; an empty field is
\* NaN (None), any other field is its text.
CsvFile(columns, cells) == [columns |-> columns, SheetName |-> cells]

\* A cell of a workbook file: the cached value and, if any, the formula text
CellOf(v)        == [v |-> v, f |-> None]
FormulaOf(f, v)  == [v |-> v, f |-> Some(f)]

\* A worksheet of a workbook file: B4, C27 and rows 1..n of columns A and B
Worksheet(title, b4, c27, colA, colB) ==
    [title |-> title, kind |-> "worksheet", B4 |-> b4, C27 |-> c27, A |-> colA, B |-> colB]

\* A chartsheet has a title and no cells
Chartsheet(title) ==
    [title |-> title, kind |-> "chartsheet", B4 |-> CellOf(NoneV), C27 |-> CellOf(NoneV),
     A |-> <<>>, B |-> <<>>]

\* A workbook file: its sheets in order, and whether it embeds a VBA project
WorkbookFile(vba, sheets) == [vba |-> vba, sheets |-> sheets]

\* An uploaded file: file.name and file.getvalue()
UploadedFile(name, bytes) == [name |-> name, bytes |-> bytes]

----------------------------------------------------------------------------
(* openpyxl                                                                *)

\* The value openpyxl gives a loaded cell: with data_only the cached value,
\* otherwise the formula text when the cell holds a formula
LoadCell(c, data_only) ==
    IF c.f # None /\ ~data_only THEN Str(c.f[1]) ELSE c.v

LoadSheet(sh, data_only) ==
    [title |-> sh.title, kind |-> sh.kind,
     B4 |-> LoadCell(sh.B4, data_only), C27 |-> LoadCell(sh.C27, data_only),
     A |-> [i \in DOMAIN sh.A |-> LoadCell(sh.A[i], data_only)],
     B |-> [i \in DOMAIN sh.B |-> LoadCell(sh.B[i], data_only)]]

\* load_workbook(bytes, data_only=..., keep_vba=...): the VBA project is
\* retained only when keep_vba is set
load_workbook(bytes, data_only, keep_vba) ==
    [vba    |-> bytes.vba /\ keep_vba,
     sheets |-> [i \in DOMAIN bytes.sheets |-> LoadSheet(bytes.sheets[i], data_only)]]

\* wb.sheetnames: a new list of the titles, in sheet order
sheetnames(wb) == [i \in DOMAIN wb.sheets |-> wb.sheets[i].title]

\* s in list
InList(s, list) == \E i \in DOMAIN list : list[i] = s

\* wb.remove(wb[name])
RemoveSheet(wb, name) ==
    LET Keep(sh) == sh.title # name IN
    [wb EXCEPT !.sheets = SelectSeq(wb.sheets, Keep)]

\* wb[tab]
SheetNamed(wb, tab) ==
    wb.sheets[CHOOSE i \in DOMAIN wb.sheets : wb.sheets[i].title = tab]

\* The cell a saved workbook holds for an in-memory value: text that starts
\* with "=" is written as a formula (without a cached value)
SaveCell(v) ==
    IF v.t = "str" /\ v.s # <<>> /\ v.s[1] = "=" THEN FormulaOf(v.s, NoneV) ELSE CellOf(v)

SaveSheet(sh) ==
    [title |-> sh.title, kind |-> sh.kind,
     B4 |-> SaveCell(sh.B4), C27 |-> SaveCell(sh.C27),
     A |-> [i \in DOMAIN sh.A |-> SaveCell(sh.A[i])],
     B |-> [i \in DOMAIN sh.B |-> SaveCell(sh.B[i])]]

\* wb.save(buf)
SaveWorkbook(wb) ==
    WorkbookFile(wb.vba, [i \in DOMAIN wb.sheets |-> SaveSheet(wb.sheets[i])])

----------------------------------------------------------------------------
(* build_outputs                                                           *)

Modes == {"Filtered workbook", "Summary sheet", "Both"}

\* The statements of build_outputs that can raise on a bad input: reading the
\* CSV, loading the workbook, saving the filtered workbook, writing the summary
FailPoints == {"none", "read_csv", "load_workbook", "save", "to_excel"}

TARGET == Str(<<"t", "o", "t", "a", "l", " ", "n", "e", "t", " ", "a", "s", "s", "e", "t", " ",
                "v", "a", "l", "u", "e", " ", "a", "f", "t", "e", "r", " ", "i", "c", " ",
                "f", "a", "l", "l">>)

\* norm(s): "" for None, else " ".join(str(s).strip().lower().split())
norm(v) ==
    IF v.t = "none" THEN <<>> ELSE join(split(lower(strip(PyStr(v)))))

\* wanted_df["SheetName"].dropna()
dropna(cells) == LET NotNaN(c) == c # None IN SelectSeq(cells, NotNaN)

\* series.map(str.strip).tolist()
MapStrip(cells) == [i \in DOMAIN cells |-> strip(cells[i][1])]

\* wanted = wanted_df["SheetName"].dropna().map(str.strip).tolist()
WantedOf(csv_bytes) == MapStrip(dropna(csv_bytes.SheetName))

DotXlsm == <<".", "x", "l", "s", "m">>
DotXlsx == <<".", "x", "l", "s", "x">>

\* a variant of KeepVba that compares the suffix without lower()
KeepVbaCaseSensitive(excel_name) == suffix(excel_name) = DotXlsm

\* keep_vba = Path(excel_name).suffix.lower() == ".xlsm"
KeepVba(excel_name) == lower(suffix(excel_name)) = DotXlsm

\* filtered_ext = ".xlsm" if keep_vba else ".xlsx"
FilteredExt(keep_vba) == IF keep_vba THEN DotXlsm ELSE DotXlsx

\* a variant of Matched that filters the workbook's names by the wanted list
MatchedInSheetOrder(wanted, source_sheetnames) ==
    LET Wanted(s) == InList(s, wanted) IN SelectSeq(source_sheetnames, Wanted)

\* matched = [s for s in wanted if s in source_sheetnames]
Matched(wanted, source_sheetnames) ==
    LET Found(s) == InList(s, source_sheetnames) IN SelectSeq(wanted, Found)

\* missing = [s for s in wanted if s not in source_sheetnames]
Missing(wanted, source_sheetnames) ==
    LET Absent(s) == ~InList(s, source_sheetnames) IN SelectSeq(wanted, Absent)

\* wanted_set = set(wanted)
SetOf(list) == {list[i] : i \in DOMAIN list}

\* a variant of RemoveUnwanted that iterates over the live sheet list: after a
\* removal the iterator skips the name that moved into the removed position
RECURSIVE RemoveLive(_, _, _)
RemoveLive(names, wb, wanted_set) ==
    IF names = <<>> THEN wb
    ELSE IF Head(names) \notin wanted_set
    THEN RemoveLive(IF Len(names) > 1 THEN Tail(Tail(names)) ELSE <<>>,
                    RemoveSheet(wb, Head(names)), wanted_set)
    ELSE RemoveLive(Tail(names), wb, wanted_set)

\* for name in list(wb.sheetnames): if name not in wanted_set: wb.remove(wb[name])
RECURSIVE RemoveUnwanted(_, _, _)
RemoveUnwanted(names, wb, wanted_set) ==
    IF names = <<>> THEN wb
    ELSE IF Head(names) \notin wanted_set
    THEN RemoveUnwanted(Tail(names), RemoveSheet(wb, Head(names)), wanted_set)
    ELSE RemoveUnwanted(Tail(names), wb, wanted_set)

SelectedSheets == <<"S", "e", "l", "e", "c", "t", "e", "d", "S", "h", "e", "e", "t", "s">>

\* buf = io.BytesIO(); wb.save(buf); return buf, f"SelectedSheets{filtered_ext}"
SavedFiltered(after, filtered_ext) ==
    [wb |-> after, buf |-> SaveWorkbook(after), fname |-> SelectedSheets \o filtered_ext]

\* build_filtered_workbook_bytes: the workbook after the removals, the saved
\* bytes and the file name
build_filtered_workbook_bytes(wb, wanted_set, filtered_ext) ==
    SavedFiltered(RemoveUnwanted(sheetnames(wb), wb, wanted_set), filtered_ext)

\* label and (label == norm(TARGET) or norm(TARGET) in label)
LabelMatches(label, target) ==
    label # <<>> /\ (label = target \/ Contains(label, target))

\* a variant of ScanA without the break: the last matching row wins
RECURSIVE ScanALast(_, _)
ScanALast(ws, i) ==
    IF i > Len(ws.A) THEN NoneV
    ELSE IF \E j \in (i + 1)..Len(ws.A) : LabelMatches(norm(ws.A[j]), norm(TARGET))
    THEN ScanALast(ws, i + 1)
    ELSE IF LabelMatches(norm(ws.A[i]), norm(TARGET)) THEN ws.B[i]
    ELSE NoneV

\* the label scan of column A: the column-B value of the first row whose
\* normalised label matches, else None
RECURSIVE ScanA(_, _)
ScanA(ws, i) ==
    IF i > Len(ws.A) THEN NoneV
    ELSE IF LabelMatches(norm(ws.A[i]), norm(TARGET)) THEN ws.B[i]
    ELSE ScanA(ws, i + 1)

\* one element of rows: the three reads; on a chartsheet ws["B4"], ws["C27"]
\* and ws["A"] raise, and each except clause leaves None
SummaryRow(ws) ==
    IF ws.kind = "worksheet"
    THEN [Name |-> ws.B4, NAV |-> ScanA(ws, 1), Cash |-> ws.C27]
    ELSE [Name |-> NoneV, NAV |-> NoneV, Cash |-> NoneV]

\* rows, one per entry of matched
SummaryRows(wb_vals, matched) ==
    [i \in DOMAIN matched |-> SummaryRow(SheetNamed(wb_vals, matched[i]))]

\* df = pd.DataFrame(rows), then pd.to_numeric on the NAV and Cash columns
SummaryFrame(rows) ==
    [i \in DOMAIN rows |->
        [Name |-> rows[i].Name, NAV |-> to_numeric(rows[i].NAV), Cash |-> to_numeric(rows[i].Cash)]]

\* df.to_excel(xw, index=False, sheet_name="Summary")
to_excel(df) == [sheet_name |-> "Summary", columns |-> <<"Name", "NAV", "Cash">>, rows |-> df]

SummaryXlsx == <<"S", "u", "m", "m", "a", "r", "y", ".", "x", "l", "s", "x">>

\* return out, "Summary.xlsx", missing
WrittenSummary(rows, df, missing) ==
    [rows |-> rows, df |-> df, out |-> to_excel(df), name |-> SummaryXlsx, missing |-> missing]

SummaryOfRows(rows, missing) == WrittenSummary(rows, SummaryFrame(rows), missing)

\* build_summary_bytes: rows, df, the written table, the file name and missing
build_summary_bytes(wb_vals, matched, missing) ==
    SummaryOfRows(SummaryRows(wb_vals, matched), missing)

\* st.download_button(label, data=..., file_name=..., key=...)
Download(key, file_name, data) == [key |-> key, file_name |-> file_name, data |-> data]

\* the locals and the rendered elements of a call of build_outputs that has
\* not started
NoBuild ==
    [outcome |-> "none", raised_at |-> "none",
     errors |-> <<>>, successes |-> <<>>, warnings |-> <<>>, downloads |-> <<>>,
     wanted |-> <<>>, keep_vba |-> None, wb |-> None, wb_vals |-> None,
     matched |-> <<>>, missing |-> <<>>, rows |-> None, df |-> None]

MsgNoColumn == "CSV must contain a column named 'SheetName'."
MsgNoNames  == "No sheet names found in CSV."
MsgNoMatch  == "No matching sheets found in the workbook."

\* an exception leaves build_outputs at the statement `at`
Raise(b, at) == [b EXCEPT !.outcome = "raised", !.raised_at = at]

\* st.error(msg); st.stop()
Stop(b, msg) == [b EXCEPT !.outcome = "stopped", !.errors = Append(@, msg)]

\* sbuf, sname, missing = build_summary_bytes(); st.success; st.download_button;
\* if missing: st.warning(...)
OfferSummary(b, s, fail) ==
    IF fail = "to_excel"
    THEN Raise([b EXCEPT !.rows = Some(s.rows), !.df = Some(s.df)], "to_excel")
    ELSE [b EXCEPT !.rows = Some(s.rows), !.df = Some(s.df),
                   !.successes = Append(@, s.name),
                   !.downloads = Append(@, Download("dl_summary", s.name, s.out)),
                   !.warnings = IF s.missing # <<>> THEN Append(@, s.missing) ELSE @]

\* a variant of SummaryStep that reads the cells of wb instead of wb_vals
SummaryStepFromWb(b, mode, fail) ==
    IF b.outcome = "raised" \/ mode \notin {"Summary sheet", "Both"} THEN b
    ELSE OfferSummary(b, build_summary_bytes(b.wb[1], b.matched, b.missing), fail)

\* if mode in ("Summary sheet", "Both"): ...
SummaryStep(b, mode, fail) ==
    IF b.outcome = "raised" \/ mode \notin {"Summary sheet", "Both"} THEN b
    ELSE OfferSummary(b, build_summary_bytes(b.wb_vals[1], b.matched, b.missing), fail)

\* fbuf, fname = build_filtered_workbook_bytes(); st.success; st.download_button
OfferFiltered(b, f, fail) ==
    IF fail = "save"
    THEN Raise([b EXCEPT !.wb = Some(f.wb)], "save")
    ELSE [b EXCEPT !.wb = Some(f.wb),
                   !.successes = Append(@, f.fname),
                   !.downloads = Append(@, Download("dl_filtered", f.fname, f.buf))]

\* a variant of FilteredStep that builds the workbook in every mode
FilteredStepAlways(b, mode, fail) ==
    OfferFiltered(b, build_filtered_workbook_bytes(b.wb[1], SetOf(b.wanted),
                                                   FilteredExt(b.keep_vba[1])),
                  fail)

\* if mode in ("Filtered workbook", "Both"): ...
FilteredStep(b, mode, fail) ==
    IF mode \notin {"Filtered workbook", "Both"} THEN b
    ELSE OfferFiltered(b, build_filtered_workbook_bytes(b.wb[1], SetOf(b.wanted),
                                                        FilteredExt(b.keep_vba[1])),
                       fail)

\* a variant of BuildPerMode without the `if not matched` check
BuildPerModeUnchecked(b, mode, fail) ==
    SummaryStep(FilteredStep([b EXCEPT !.outcome = "returned"], mode, fail), mode, fail)

\* if not matched: st.error(...); st.stop(); then the outputs of the mode
BuildPerMode(b, mode, fail) ==
    IF b.matched = <<>> THEN Stop(b, MsgNoMatch)
    ELSE SummaryStep(FilteredStep([b EXCEPT !.outcome = "returned"], mode, fail), mode, fail)

\* source_sheetnames = wb.sheetnames; matched = ...; missing = ...
MatchSheets(b, mode, fail) ==
    BuildPerMode([b EXCEPT !.matched = Matched(b.wanted, sheetnames(b.wb[1])),
                           !.missing = Missing(b.wanted, sheetnames(b.wb[1]))],
                 mode, fail)

\* wb = load_workbook(..., data_only=False, keep_vba=keep_vba)
\* wb_vals = load_workbook(..., data_only=True)
LoadBoth(b, excel_bytes, mode, fail) ==
    IF fail = "load_workbook" THEN Raise(b, "load_workbook")
    ELSE MatchSheets([b EXCEPT !.wb = Some(load_workbook(excel_bytes, FALSE, b.keep_vba[1])),
                               !.wb_vals = Some(load_workbook(excel_bytes, TRUE, FALSE))],
                     mode, fail)

\* if not wanted: st.error(...); st.stop(); then keep_vba
CheckWanted(b, excel_name, excel_bytes, mode, fail) ==
    IF b.wanted = <<>> THEN Stop(b, MsgNoNames)
    ELSE LoadBoth([b EXCEPT !.keep_vba = Some(KeepVba(excel_name))], excel_bytes, mode, fail)

\* build_outputs(excel_name, excel_bytes, csv_bytes, mode); fail names the
\* statement, if any, that raises on these inputs
build_outputs(excel_name, excel_bytes, csv_bytes, mode, fail) ==
    IF fail = "read_csv" THEN Raise(NoBuild, "read_csv")
    ELSE IF "SheetName" \notin csv_bytes.columns THEN Stop(NoBuild, MsgNoColumn)
    ELSE CheckWanted([NoBuild EXCEPT !.wanted = WantedOf(csv_bytes)],
                     excel_name, excel_bytes, mode, fail)

----------------------------------------------------------------------------
(* The script, run top to bottom on every user interaction                 *)

Keys == {"excel_bytes", "excel_name", "csv_bytes", "csv_name"}

\* for k in [...]: st.session_state.setdefault(k, None), on an empty state
EmptySessionState == [k \in Keys |-> None]

\* _persist_upload_to_state(file, slot_key_bytes, slot_key_name)
_persist_upload_to_state(ss, file, slot_key_bytes, slot_key_name) ==
    IF file = None THEN ss
    ELSE [ss EXCEPT ![slot_key_bytes] = Some(file[1].bytes),
                    ![slot_key_name]  = Some(file[1].name)]

\* _get_persisted_file(slot_key_bytes, slot_key_name)
_get_persisted_file(ss, slot_key_bytes, slot_key_name) ==
    [name |-> ss[slot_key_name], b |-> ss[slot_key_bytes]]

\* the truth value of a name slot: None and "" are false
Truthy(name) == name # None /\ name # Some(<<>>)

\* if st.session_state[slot]: st.caption(...)
Caption(ss, slot_key_name) ==
    IF Truthy(ss[slot_key_name]) THEN <<ss[slot_key_name][1]>> ELSE <<>>

\* if st.button("Clear Excel"): ... / if st.button("Clear CSV"): ...
ClearSlots(ss, ev) ==
    IF ev = "clear_excel" THEN [ss EXCEPT !["excel_bytes"] = None, !["excel_name"] = None]
    ELSE IF ev = "clear_csv" THEN [ss EXCEPT !["csv_bytes"] = None, !["csv_name"] = None]
    ELSE ss

\* ready = (excel_bytes is not None) and (csv_bytes is not None)
Ready(excel_bytes, csv_bytes) == excel_bytes # None /\ csv_bytes # None

\* except Exception as e: st.error(f"Error: {e}"); st.stop() raises a
\* script-control exception that is no Exception, so it passes this clause
Catch(b) ==
    IF b.outcome = "raised" THEN [b EXCEPT !.errors = Append(@, "Error: exception")] ELSE b

\* if btn: try: build_outputs(excel_name, excel_bytes, csv_bytes, mode) ...
BuildHandler(btn, excel, csv, mode, fail) ==
    IF ~btn THEN NoBuild
    ELSE Catch(build_outputs(excel.name[1], excel.b[1], csv.b[1], mode, fail))

\* what a run leaves: the session state, the rendered elements and the locals
\* of build_outputs
Rendered(ss, captions, excel, csv, b) ==
    [session_state |-> ss,
     build |-> b,
     ui |-> [captions  |-> captions,
             detected  |-> [excel |-> Truthy(excel.name), csv |-> Truthy(csv.name)],
             build_btn_disabled |-> ~Ready(excel.b, csv.b),
             errors    |-> b.errors,
             successes |-> b.successes,
             warnings  |-> b.warnings,
             downloads |-> b.downloads]]

\* from "Resolve current effective inputs" to the end of the script
FromResolve(ss, captions, excel, csv, mode, ev, fail) ==
    Rendered(ss, captions, excel, csv, BuildHandler(ev = "build", excel, csv, mode, fail))

\* from the clear buttons on
FromClear(ss, captions, mode, ev, fail) ==
    FromResolve(ss, captions,
                _get_persisted_file(ss, "excel_bytes", "excel_name"),
                _get_persisted_file(ss, "csv_bytes", "csv_name"),
                mode, ev, fail)

\* from the CSV uploader's caption on
FromCsvCaption(ss, capExcel, mode, ev, fail) ==
    FromClear(ClearSlots(ss, ev), capExcel \o Caption(ss, "csv_name"), mode, ev, fail)

\* from the CSV uploader on
FromCsvUploader(ss, csv_file, mode, ev, fail) ==
    FromCsvCaption(_persist_upload_to_state(ss, csv_file, "csv_bytes", "csv_name"),
                   Caption(ss, "excel_name"), mode, ev, fail)

\* One run of the script. ev is the interaction that triggered the run,
\* xlsx_file and csv_file are what the two uploaders return in this run.
Script(ss, xlsx_file, csv_file, mode, ev, fail) ==
    FromCsvUploader(_persist_upload_to_state(ss, xlsx_file, "excel_bytes", "excel_name"),
                    csv_file, mode, ev, fail)

\* The state after a run of the script
Rerun(xlsx_file, csv_file, mode, ev, fail) ==
    \E r \in {Script(session_state, xlsx_file, csv_file, mode, ev, fail)} :
        /\ uploader_excel' = xlsx_file
        /\ uploader_csv'   = csv_file
        /\ mode_radio'     = mode
        /\ event'          = ev
        /\ session_state'  = r.session_state
        /\ ui'             = r.ui
        /\ build'          = r.build

----------------------------------------------------------------------------
(* The files of the interactive specification                              *)

NameA == <<"A">>
NameB == <<"B">>
NameC == <<"C">>
NameD == <<"D">>

GrowthFund == <<"G", "r", "o", "w", "t", "h", " ", "F", "u", "n", "d">>
LabelMixed == <<"T", "o", "t", "a", "l", " ", "N", "e", "t", " ", "A", "s", "s", "e", "t", " ",
                "V", "a", "l", "u", "e", " ", " ", "A", "f", "t", "e", "r", " ", "I", "C", " ",
                "F", "a", "l", "l">>
BookXlsx == <<"b", "o", "o", "k", ".", "x", "l", "s", "x">>
BookXlsm == <<"b", "o", "o", "k", ".", "x", "l", "s", "m">>
NamesCsv == <<"n", "a", "m", "e", "s", ".", "c", "s", "v">>

\* a fund sheet: B4 a name, C27 a cash amount, a NAV label in column A
FundSheet(title) ==
    Worksheet(title, CellOf(Str(GrowthFund)), CellOf(Num(1000)),
              <<CellOf(NoneV), CellOf(Str(<<" ", " ">>)), CellOf(Num(5)), CellOf(Str(LabelMixed))>>,
              <<CellOf(NoneV), CellOf(Num(1)), CellOf(Num(2)), CellOf(Num(5000000))>>)

ExcelFilesUI ==
    { UploadedFile(BookXlsx,
                   WorkbookFile(FALSE, <<FundSheet(NameA), FundSheet(NameB), FundSheet(NameC)>>)),
      UploadedFile(BookXlsm, WorkbookFile(TRUE, <<FundSheet(NameB), FundSheet(NameA)>>)) }

CsvFilesUI ==
    { UploadedFile(NamesCsv, CsvFile({"SheetName"}, <<Some(NameB), Some(NameD)>>)),
      UploadedFile(NamesCsv, CsvFile({"SheetName"}, <<Some(NameA), Some(NameB), Some(NameC)>>)),
      UploadedFile(NamesCsv, CsvFile({"SheetName"}, <<Some(NameD)>>)),
      UploadedFile(NamesCsv, CsvFile({"SheetName"}, <<None, None>>)),
      UploadedFile(NamesCsv, CsvFile({"SheetName"}, <<None, Some(<<" ", " ">>)>>)),
      UploadedFile(NamesCsv, CsvFile({"Sheet"}, <<>>)) }

----------------------------------------------------------------------------
(* The user's interactions; each one triggers a run of the script          *)

\* the user drops a file on the Excel uploader
UploadExcel ==
    \E f \in ExcelFilesUI :
        /\ uploader_excel # Some(f)
        /\ Rerun(Some(f), uploader_csv, mode_radio, "upload_excel", "none")

\* the user drops a file on the CSV uploader
UploadCsv ==
    \E f \in CsvFilesUI :
        /\ uploader_csv # Some(f)
        /\ Rerun(uploader_excel, Some(f), mode_radio, "upload_csv", "none")

\* the user removes the file shown in the Excel uploader
RemoveExcel ==
    /\ uploader_excel # None
    /\ Rerun(None, uploader_csv, mode_radio, "remove_excel", "none")

\* the user removes the file shown in the CSV uploader
RemoveCsv ==
    /\ uploader_csv # None
    /\ Rerun(uploader_excel, None, mode_radio, "remove_csv", "none")

\* the user presses "Clear Excel"
ClearExcel == Rerun(uploader_excel, uploader_csv, mode_radio, "clear_excel", "none")

\* the user presses "Clear CSV"
ClearCsv == Rerun(uploader_excel, uploader_csv, mode_radio, "clear_csv", "none")

\* the user picks another output mode
ChangeMode ==
    \E m \in Modes :
        /\ m # mode_radio
        /\ Rerun(uploader_excel, uploader_csv, m, "mode", "none")

\* the user presses "Build file(s)", which the last run rendered enabled
PressBuild ==
    \E fail \in FailPoints :
        /\ ~ui.build_btn_disabled
        /\ Rerun(uploader_excel, uploader_csv, mode_radio, "build", fail)

\* the user presses one of the download buttons the last run rendered
ClickDownload ==
    /\ ui.downloads # <<>>
    /\ Rerun(uploader_excel, uploader_csv, mode_radio, "download", "none")

\* the first run of the script, when the page is opened
Init ==
    \E r \in {Script(EmptySessionState, None, None, "Filtered workbook", "open", "none")} :
        /\ uploader_excel = None
        /\ uploader_csv   = None
        /\ mode_radio     = "Filtered workbook"
        /\ event          = "open"
        /\ session_state  = r.session_state
        /\ ui             = r.ui
        /\ build          = r.build

Next ==
    \/ UploadExcel
    \/ UploadCsv
    \/ RemoveExcel
    \/ RemoveCsv
    \/ ClearExcel
    \/ ClearCsv
    \/ ChangeMode
    \/ PressBuild
    \/ ClickDownload

Spec == Init /\ [][Next]_vars

----------------------------------------------------------------------------
(* The build specification: the page with both files uploaded, over wider *)
(* families of files                                                       *)

\* the sequences over S of length lo..hi
SeqsOf(S, lo, hi) == UNION {[1..k -> S] : k \in lo..hi}

Injective(q) == \A i, j \in DOMAIN q : q[i] = q[j] => i = j

Pairs(excels, csvs) == {<<e, c>> : e \in excels, c \in csvs}

NamesCsvOf(cells) == UploadedFile(NamesCsv, CsvFile({"SheetName"}, cells))

FundBook(name, vba, titles) ==
    UploadedFile(name, WorkbookFile(vba, [i \in DOMAIN titles |-> FundSheet(titles[i])]))

\* Matching: workbooks of 1..MaxSheets fund sheets against CSVs of
\* 0..MaxWanted cells: empty, exact, padded and absent names; and CSVs
\* without the SheetName column
CsvCells == {None, Some(NameA), Some(<<" ", "B", " ">>), Some(NameD)}

FamilyMatch ==
    Pairs({FundBook(BookXlsx, FALSE, t) :
              t \in {q \in SeqsOf({NameA, NameB, NameC}, 1, MaxSheets) : Injective(q)}},
          {NamesCsvOf(cells) : cells \in SeqsOf(CsvCells, 0, MaxWanted)}
          \cup {UploadedFile(NamesCsv, CsvFile({"sheetname", "Sheet"}, <<>>))})

\* File names: the extension in several spellings, with and without a VBA
\* project in the file
BookUpper  == <<"b", "o", "o", "k", ".", "X", "L", "S", "M">>
BookDouble == <<"b", "o", "o", "k", ".", "x", "l", "s", "m", ".", "x", "l", "s", "x">>
MyBookXlsm == <<"m", "y", ".", "b", "o", "o", "k", ".", "X", "l", "s", "m">>
OnlyXlsm   == <<".", "x", "l", "s", "m">>

FileNames == {BookXlsx, BookXlsm, BookUpper, BookDouble, MyBookXlsm, OnlyXlsm}

FamilyName ==
    Pairs({FundBook(n, v, <<NameC, NameA, NameB>>) : n \in FileNames, v \in BOOLEAN},
          {NamesCsvOf(<<Some(NameB), Some(NameD)>>),
           NamesCsvOf(<<Some(NameB), Some(NameD), Some(NameC)>>)})

\* Summary rows: worksheets and chartsheets whose B4 and C27 hold nothing,
\* text, numbers, numeric text and formulas
Text1234 == <<"1", ",", "2", "3", "4">>
Text12   == <<"1", "2">>
SumC1C9  == <<"=", "S", "U", "M", "(", "C", "1", ":", "C", "9", ")">>

LabelUpper  == <<"T", "O", "T", "A", "L", " ", "N", "E", "T", " ", "A", "S", "S", "E", "T", " ",
                 "V", "A", "L", "U", "E", " ", "A", "F", "T", "E", "R", " ", "I", "C", " ",
                 "F", "A", "L", "L">>

B4Cells  == {CellOf(NoneV), CellOf(Str(GrowthFund))}
C27Cells == {CellOf(Num(1000)), CellOf(Str(Text1234)), CellOf(Str(Text12)), FormulaOf(SumC1C9, Num(7))}

SheetVariants(title, label) ==
    {Chartsheet(title)}
    \cup {Worksheet(title, b4, c27, <<CellOf(label)>>, <<CellOf(Num(5000000))>>) :
             b4 \in B4Cells, c27 \in C27Cells}

FamilyRows ==
    Pairs({UploadedFile(BookXlsx, WorkbookFile(FALSE, sheets)) :
              sheets \in {<<a>> : a \in SheetVariants(NameA, Str(LabelUpper))}
                         \cup {<<a, b>> : a \in SheetVariants(NameA, Str(LabelUpper)),
                                          b \in SheetVariants(NameB, TARGET)}},
          {NamesCsvOf(<<Some(NameA)>>),
           NamesCsvOf(<<Some(NameA), Some(NameD), Some(NameA)>>),
           NamesCsvOf(<<Some(NameB), Some(NameA)>>)})

\* Label scan: one worksheet whose columns A and B hold 0..MaxRows rows
LabelPadded == <<" ", " ", "T", "o", "t", "a", "l", " ", "n", "e", "t", " ", "a", "s", "s", "e",
                 "t", " ", "v", "a", "l", "u", "e", " ", "a", "f", "t", "e", "r", " ", "I", "C",
                 " ", "f", "a", "l", "l", " ", "(", "U", "S", "D", ")", " ">>
LabelShort  == <<"T", "o", "t", "a", "l", " ", "N", "e", "t", " ", "A", "s", "s", "e", "t", " ",
                 "V", "a", "l", "u", "e">>

Labels == {NoneV, Str(LabelMixed), Str(LabelPadded), Str(LabelShort)}
BVals  == {NoneV, Num(5000000)}

ScanRows == SeqsOf({<<l, b>> : l \in Labels, b \in BVals}, 0, MaxRows)

ScanSheet(rows) ==
    Worksheet(NameA, CellOf(Str(GrowthFund)), CellOf(Num(1000)),
              [i \in DOMAIN rows |-> CellOf(rows[i][1])], [i \in DOMAIN rows |-> CellOf(rows[i][2])])

FamilyScan ==
    Pairs({UploadedFile(BookXlsx, WorkbookFile(FALSE, <<ScanSheet(rows)>>)) : rows \in ScanRows},
          {NamesCsvOf(<<Some(NameA)>>)})

BuildInputs == FamilyMatch \cup FamilyName \cup FamilyRows \cup FamilyScan

\* the session state after the page is opened and the Excel file is uploaded
AfterExcelUpload(xlsx_file) ==
    Script(EmptySessionState, Some(xlsx_file), None, "Filtered workbook", "upload_excel", "none")
        .session_state

\* the page after the user has uploaded an Excel file and then a CSV file
InitBuild ==
    \E p \in BuildInputs :
    \E r \in {Script(AfterExcelUpload(p[1]), Some(p[1]), Some(p[2]),
                     "Filtered workbook", "upload_csv", "none")} :
        /\ uploader_excel = Some(p[1])
        /\ uploader_csv   = Some(p[2])
        /\ mode_radio     = "Filtered workbook"
        /\ event          = "upload_csv"
        /\ session_state  = r.session_state
        /\ ui             = r.ui
        /\ build          = r.build

NextBuild ==
    \/ ChangeMode
    \/ PressBuild

SpecBuild == InitBuild /\ [][NextBuild]_vars

----------------------------------------------------------------------------
(* Properties                                                              *)

\* the inputs of the last run, as the session state holds them
SourceBook   == session_state["excel_bytes"][1]
SourceName   == session_state["excel_name"][1]
SourceTitles == sheetnames(SourceBook)

\* the sheet of the uploaded workbook titled tab
SourceSheet(tab) == SheetNamed(SourceBook, tab)

\* res is list with the entries outside S deleted: the k-th kept entry of
\* list is the k-th entry of res
IsRestriction(res, list, S) ==
    LET kept == {i \in DOMAIN list : list[i] \in S} IN
    /\ Len(res) = Cardinality(kept)
    /\ \A i \in kept : res[Cardinality({j \in kept : j <= i})] = list[i]

\* C1: once the workbook is loaded, matched is the wanted list restricted to
\* the workbook's sheet names and missing is the wanted list restricted to
\* the other names, both in the wanted list's order; as sets they partition
\* the wanted names.
C1_MatchedMissingPartition ==
    build.wb # None =>
        /\ IsRestriction(build.matched, build.wanted, SetOf(SourceTitles))
        /\ IsRestriction(build.missing, build.wanted, SetOf(build.wanted) \ SetOf(SourceTitles))
        /\ SetOf(build.matched) \cup SetOf(build.missing) = SetOf(build.wanted)
        /\ SetOf(build.matched) \cap SetOf(build.missing) = {}

C1_Witness ==
    /\ event = "build"
    /\ build.wanted = <<NameA, NameD, NameA>>
    /\ build.matched = <<NameA, NameA>>
    /\ build.missing = <<NameD>>

\* C2: whenever the filtered workbook has been built, its sheet names (in
\* memory and in the saved download) are the source workbook's sheet names
\* restricted to the wanted set, in source order; when every source sheet is
\* wanted, the names are unchanged.
C2_FilteredKeepsWantedSheets ==
    /\ (event = "build" /\ mode_radio \in {"Filtered workbook", "Both"}
        /\ build.outcome \in {"returned", "raised"} /\ build.raised_at \notin {"read_csv", "load_workbook"})
       => /\ IsRestriction(sheetnames(build.wb[1]), SourceTitles, SetOf(build.wanted))
          /\ SetOf(SourceTitles) \subseteq SetOf(build.wanted)
                => sheetnames(build.wb[1]) = SourceTitles
    /\ \A i \in DOMAIN ui.downloads :
          ui.downloads[i].key = "dl_filtered"
          => /\ IsRestriction(sheetnames(ui.downloads[i].data), SourceTitles, SetOf(build.wanted))
             /\ SetOf(SourceTitles) \subseteq SetOf(build.wanted)
                   => sheetnames(ui.downloads[i].data) = SourceTitles

C2_Witness ==
    /\ ui.downloads # <<>>
    /\ ui.downloads[1].key = "dl_filtered"
    /\ SourceTitles = <<NameC, NameA, NameB>>
    /\ build.wanted = <<NameB, NameD, NameC>>
    /\ sheetnames(ui.downloads[1].data) = <<NameC, NameB>>

\* C3: in every mode, a build with at least one wanted name present and at
\* least one absent offers its output and shows one warning that lists
\* exactly the missing names.
C3_PartialMatchWarns ==
    (event = "build" /\ build.outcome = "returned" /\ build.missing # <<>>)
    => (ui.downloads # <<>> /\ ui.warnings = <<build.missing>>)

\* C4: when a statement of build_outputs raises, the generic error is shown
\* and no download is offered in that run.
C4_FailureOffersNothing ==
    build.outcome = "raised"
    => (ui.errors = <<"Error: exception">> /\ ui.downloads = <<>>)

\* the CSV of the last run has no SheetName column, or none of its cells is,
\* once stripped, the name of a sheet of the workbook
NothingToSelect ==
    LET csv == session_state["csv_bytes"][1] IN
    \/ "SheetName" \notin csv.columns
    \/ \A i \in DOMAIN csv.SheetName :
          \/ csv.SheetName[i] = None
          \/ strip(csv.SheetName[i][1]) \notin SetOf(SourceTitles)

\* C5: a build that aborts (no SheetName column, no names, or no match)
\* removes no sheet, builds nothing and offers no download, in every mode;
\* and every build on such inputs that does not raise aborts.
C5_AbortProducesNothing ==
    /\ (event = "build" /\ build.raised_at = "none" /\ NothingToSelect)
       => build.outcome = "stopped"
    /\ build.outcome = "stopped"
       => /\ Len(ui.errors) = 1
          /\ ui.errors[1] \in {MsgNoColumn, MsgNoNames, MsgNoMatch}
          /\ ui.successes = <<>> /\ ui.downloads = <<>> /\ ui.warnings = <<>>
          /\ build.rows = None /\ build.df = None
          /\ build.wb # None => sheetnames(build.wb[1]) = SourceTitles

C5_Witness ==
    /\ event = "build"
    /\ mode_radio = "Both"
    /\ build.outcome = "stopped"
    /\ ui.errors = <<MsgNoMatch>>
    /\ build.wb # None

\* the keys of the download buttons, in the order they were rendered
DownloadKeys == [i \in DOMAIN ui.downloads |-> ui.downloads[i].key]

\* C6: a build that neither aborts nor fails offers exactly the outputs of
\* its mode: the filtered workbook, the summary (with the loaded workbook
\* left whole), or the filtered workbook followed by the summary.
C6_ModeDeterminesOutputs ==
    build.outcome = "returned" =>
        /\ mode_radio = "Filtered workbook"
              => (DownloadKeys = <<"dl_filtered">> /\ build.rows = None)
        /\ mode_radio = "Summary sheet"
              => (DownloadKeys = <<"dl_summary">> /\ sheetnames(build.wb[1]) = SourceTitles)
        /\ mode_radio = "Both"
              => DownloadKeys = <<"dl_filtered", "dl_summary">>

C6_Witness ==
    /\ build.outcome = "returned"
    /\ mode_radio = "Both"
    /\ DownloadKeys = <<"dl_filtered", "dl_summary">>
    /\ Len(build.wb[1].sheets) < Len(SourceTitles)

\* the name is longer than ".xlsm" and ends with it, letter case ignored
HasXlsmExtension(name) ==
    /\ Len(name) > 5
    /\ \A k \in 1..5 : LowerChar(name[Len(name) - 5 + k]) = DotXlsm[k]

\* C7: macro retention is on, and the filtered output is named
\* SelectedSheets.xlsm, exactly when the source file name has the extension
\* .xlsm in any letter case; otherwise retention is off and the name is
\* SelectedSheets.xlsx.
C7_MacroFormatFollowsExtension ==
    build.keep_vba # None =>
        /\ build.keep_vba[1] = HasXlsmExtension(SourceName)
        /\ build.wb # None => build.wb[1].vba = (SourceBook.vba /\ HasXlsmExtension(SourceName))
        /\ \A i \in DOMAIN ui.downloads :
              ui.downloads[i].key = "dl_filtered"
              => /\ ui.downloads[i].file_name =
                       SelectedSheets \o (IF HasXlsmExtension(SourceName) THEN DotXlsm ELSE DotXlsx)
                 /\ ui.downloads[i].data.vba = (SourceBook.vba /\ HasXlsmExtension(SourceName))

C7_Witness ==
    /\ SourceName = BookUpper
    /\ build.keep_vba = Some(TRUE)
    /\ ui.downloads # <<>>
    /\ ui.downloads[1].file_name = SelectedSheets \o DotXlsm
    /\ ui.downloads[1].data.vba

\* C8: the summary has one row per entry of matched, in that order; Name and
\* Cash are the computed values of B4 and C27 of the uploaded sheet, all
\* three fields are missing for a sheet whose cells cannot be read, and the
\* row is kept; this holds alike in the modes "Summary sheet" and "Both".
C8_SummaryRowsPerMatched ==
    build.rows # None =>
        /\ Len(build.rows[1]) = Len(build.matched)
        /\ Len(build.df[1]) = Len(build.matched)
        /\ \A i \in DOMAIN build.matched :
              /\ SourceSheet(build.matched[i]).kind = "worksheet"
                    => /\ build.rows[1][i].Name = SourceSheet(build.matched[i]).B4.v
                       /\ build.rows[1][i].Cash = SourceSheet(build.matched[i]).C27.v
              /\ SourceSheet(build.matched[i]).kind = "chartsheet"
                    => build.rows[1][i] = [Name |-> NoneV, NAV |-> NoneV, Cash |-> NoneV]
              /\ build.df[1][i].Name = build.rows[1][i].Name
        /\ \A i \in DOMAIN ui.downloads :
              ui.downloads[i].key = "dl_summary" => ui.downloads[i].data.rows = build.df[1]

C8_Witness ==
    /\ mode_radio = "Both"
    /\ build.outcome = "returned"
    /\ build.matched = <<NameA, NameA>>
    /\ Len(build.wb[1].sheets) < Len(SourceTitles)
    /\ SourceSheet(NameA).kind = "worksheet"
    /\ SourceSheet(NameA).C27.f # None
    /\ build.rows[1][1] = build.rows[1][2]
    /\ build.rows[1][1].Cash = Num(7)

\* the labels of the model that, trimmed, lower-cased and with whitespace runs
\* collapsed, equal or contain the target phrase
MatchingLabels == {Str(LabelMixed), Str(LabelUpper), TARGET, Str(LabelPadded)}

\* the rows of a sheet whose column-A label matches
MatchingRows(sh) == {r \in DOMAIN sh.A : sh.A[r].v \in MatchingLabels}

\* C9: for every matched worksheet, NAV is the column-B value of the topmost
\* row whose column-A label matches the target phrase, and is missing when
\* no row matches.
C9_NavFromFirstMatchingRow ==
    build.rows # None =>
        \A i \in DOMAIN build.matched :
            SourceSheet(build.matched[i]).kind = "worksheet"
            => build.rows[1][i].NAV =
                  IF MatchingRows(SourceSheet(build.matched[i])) = {} THEN NoneV
                  ELSE SourceSheet(build.matched[i]).B[
                          CHOOSE r \in MatchingRows(SourceSheet(build.matched[i])) :
                              \A q \in MatchingRows(SourceSheet(build.matched[i])) : r <= q].v

C9_Witness ==
    /\ build.rows # None
    /\ build.matched = <<NameA>>
    /\ MatchingRows(SourceSheet(NameA)) = {1, 2}
    /\ SourceSheet(NameA).A[1].v = Str(LabelPadded)
    /\ SourceSheet(NameA).B[1].v = NoneV
    /\ SourceSheet(NameA).B[2].v = Num(5000000)
    /\ build.rows[1][1].NAV = NoneV

\* C10: the run triggered by "Clear Excel" leaves the Excel slot empty, the
\* Build button disabled and the CSV slot as it was, and the Excel slot stays
\* empty and the button disabled over every later run that is not an upload
\* of an Excel file; the same for "Clear CSV".
C10_ClearedUntilNewUpload ==
    [][/\ event' = "clear_excel"
          => /\ session_state'["excel_bytes"] = None /\ session_state'["excel_name"] = None
             /\ ui'.build_btn_disabled
             /\ session_state'["csv_bytes"] = session_state["csv_bytes"]
             /\ session_state'["csv_name"] = session_state["csv_name"]
       /\ (session_state["excel_bytes"] = None /\ event' # "upload_excel")
          => (session_state'["excel_bytes"] = None /\ ui'.build_btn_disabled)
       /\ event' = "clear_csv"
          => /\ session_state'["csv_bytes"] = None /\ session_state'["csv_name"] = None
             /\ ui'.build_btn_disabled
             /\ session_state'["excel_bytes"] = session_state["excel_bytes"]
             /\ session_state'["excel_name"] = session_state["excel_name"]
       /\ (session_state["csv_bytes"] = None /\ event' # "upload_csv")
          => (session_state'["csv_bytes"] = None /\ ui'.build_btn_disabled)
      ]_vars

====
